---- MODULE Spec2Model ----
(***************************************************************************)
(* IngressSyncTraversalWorker (grape/worker/ingress_sync_traversal_worker.h) *)
(* driving a monotone min-style traversal kernel (SSSP) over a graph that  *)
(* is partitioned over two workers.  Query() runs the batch fixed point,   *)
(* then deltaCompute() resets the dependency subtrees of deleted edges,    *)
(* replaces the fragment, replays the retained deltas (kickoff round) and  *)
(* re-enters the batch loop.                                               *)
(*                                                                         *)
(* Vertices are identified by gid; the fragment builder keeps inner        *)
(* handles stable, so a handle and its gid are used interchangeably.       *)
(* A worker action runs from one collective operation (FinishARound /      *)
(* ToTerminate / Sum / MPI_Barrier) to the next one; the collectives are   *)
(* the global actions.                                                     *)
(***************************************************************************)
EXTENDS Integers, FiniteSets, Sequences

\* ------------------------------------------------------------------------
\* Bounds of the explored inputs
\* ------------------------------------------------------------------------
MaxDel == 1
MaxAdd == 1
\* the round counters stop counting here; no run of the explored inputs
\* gets that far
MaxRound == 9

Vertices == {1, 2, 3, 4, 5}
Workers == {1, 2}

\* candidate weighted edges <<u, v, weight>>; a graph is any subset
EdgeUniverse ==
  {<<1, 2, 1>>, <<2, 3, 2>>, <<1, 3, 5>>, <<3, 4, 1>>, <<4, 5, 1>>, <<2, 1, 1>>}

\* ------------------------------------------------------------------------
\* Kernel (SSSP) constants
\* ------------------------------------------------------------------------
Source == 1
Identity == 99
NoParent == 0

IdentityDelta == [value |-> Identity, parent |-> NoParent]

VARIABLES
  graph0,           \* the graph loaded before Query
  owner,            \* partition: gid -> worker owning it
  efile_update,     \* FLAGS_efile_update is non-empty
  upd,              \* content of the update file, fixed when first parsed
  fragment_,        \* per worker: "old" or "new" fragment held
  values_,          \* app_->values_, per worker, by gid
  deltas_,          \* app_->deltas_, per worker, by gid (inner and outer)
  curr_modified_,   \* app_->curr_modified_
  next_modified_,   \* app_->next_modified_
  curr_modified,    \* deltaCompute local
  next_modified,    \* deltaCompute local
  reset_vertices,   \* deltaCompute local
  n_reset,          \* deltaCompute local: result of communicator.Sum
  batch_stage,      \* Query local
  step,             \* Query local: number of the batch round of the phase
  terminate,        \* result of the last ToTerminate() collective
  force_continue,   \* message manager: ForceContinue vote of the round
  outbox,           \* message manager: messages sent in the current round
  inbox,            \* message manager: messages to process next round
  pc,               \* per worker position
  n_term,           \* history: ToTerminate() = true seen in Query's loop
  fc_at_finish,     \* history: force_continue when FinishARound was called
  emitted,          \* history: messages sent in the last finished round
  last_sent,        \* history: last delta payload sent per outer gid
  batch_values,     \* history: values_ when the batch phase terminated
  batch_deltas,     \* history: deltas_ when the batch phase terminated
  reset_rounds      \* history: reset rounds the worker has executed

vars == <<graph0, owner, efile_update, upd, fragment_, values_, deltas_,
          curr_modified_, next_modified_, curr_modified, next_modified,
          reset_vertices, n_reset, batch_stage, terminate, force_continue,
          outbox, inbox, pc, n_term, fc_at_finish, emitted, last_sent,
          batch_values, batch_deltas, step, reset_rounds>>

\* ------------------------------------------------------------------------
\* Generic helpers
\* ------------------------------------------------------------------------
Min(S) == CHOOSE x \in S : \A y \in S : x <= y

\* all processing orders of a set (parallel-for order is unspecified)
Orders(S) ==
  {f \in [1..Cardinality(S) -> S] : \A i, j \in 1..Cardinality(S) : f[i] = f[j] => i = j}

\* ascending order of a set of gids (sequential for over a vertex range)
RECURSIVE Ascending(_)
Ascending(S) ==
  IF S = {} THEN <<>> ELSE <<Min(S)>> \o Ascending(S \ {Min(S)})

\* ------------------------------------------------------------------------
\* Update file and fragments
\* ------------------------------------------------------------------------
EdgePairs(G) == {<<e[1], e[2]>> : e \in G}

\* G (+) U: deleted pairs removed, added edges inserted
ApplyUpdate(G, U) == {e \in G : <<e[1], e[2]>> \notin U.del} \cup U.add

UpdatedGraph == ApplyUpdate(graph0, upd)

\* update sets an update file can hold for graph G
Updates(G) ==
  {[parsed |-> TRUE, del |-> d, add |-> a] :
     d \in {x \in SUBSET EdgePairs(G) : Cardinality(x) <= MaxDel},
     a \in {x \in SUBSET (EdgeUniverse \ G) : Cardinality(x) <= MaxAdd}}

\* edges of the fragment held by worker w
FragGraph(w) == IF fragment_[w] = "new" THEN UpdatedGraph ELSE graph0

InnerVertices(w) == {v \in Vertices : owner[v] = w}

\* mirrors: remote end points of edges incident to an inner vertex
OuterVerticesOf(G, w) ==
  {v \in Vertices \ InnerVertices(w) :
     \E e \in G : \/ e[1] \in InnerVertices(w) /\ e[2] = v
                  \/ e[2] \in InnerVertices(w) /\ e[1] = v}

OuterVertices(w) == OuterVerticesOf(FragGraph(w), w)

GetOutgoingAdjList(G, u) == {e \in G : e[1] = u}

\* ------------------------------------------------------------------------
\* Kernel (SSSP over the min monoid)
\* ------------------------------------------------------------------------
GetInitDelta(w, v) ==
  IF v = Source /\ owner[v] = w
    THEN [value |-> 0, parent |-> Source]
    ELSE IdentityDelta

\* kernel Init: all entries identity, the native source carries delta 0
AppInitValues == [v \in Vertices |-> Identity]
AppInitDeltas(w) == [v \in Vertices |-> GetInitDelta(w, v)]
AppInitCurrModified(w) ==
  {v \in InnerVertices(w) : GetInitDelta(w, v).value # Identity}

\* AccumulateTo: true iff the message strictly improves D[v]
AccumulateImproves(d, msg) == msg.value < d.value

AccumulateTo(D, v, msg) ==
  IF AccumulateImproves(D[v], msg) THEN [D EXCEPT ![v] = msg] ELSE D

\* CombineValueDelta: true iff delta strictly improves value
CombineValueDelta(value, delta) == value > delta.value

DeltaParentGid(D, v) == D[v].parent

\* Compute: push delta.value + weight over every outgoing edge of u
ComputeTargets(G, u, D) ==
  {v \in Vertices :
     \E e \in GetOutgoingAdjList(G, u) :
        e[2] = v /\ D[u].value + e[3] < D[v].value}

Compute(G, u, st) ==
  LET dist == st.D[u].value
      tg   == ComputeTargets(G, u, st.D)
      best(v) == Min({dist + e[3] : e \in {x \in GetOutgoingAdjList(G, u) : x[2] = v}})
  IN [V  |-> st.V,
      D  |-> [v \in Vertices |->
                IF v \in tg THEN [value |-> best(v), parent |-> u] ELSE st.D[v]],
      nm |-> st.nm \cup tg]

\* ------------------------------------------------------------------------
\* Reference: least fixpoint of the kernel (true shortest distances)
\* ------------------------------------------------------------------------
\* length of a shortest path from the source to v with at most n edges
RECURSIVE PathDist(_, _, _)
PathDist(G, v, n) ==
  LET base == IF v = Source THEN 0 ELSE Identity
  IN IF n = 0 THEN base
     ELSE Min({base} \cup
              {LET d == PathDist(G, e[1], n - 1)
               IN IF d = Identity THEN Identity ELSE d + e[3] :
                 e \in {x \in G : x[2] = v}})

LeastFixpoint(G) ==
  [v \in Vertices |-> PathDist(G, v, Cardinality(Vertices) - 1)]

\* ------------------------------------------------------------------------
\* Message manager
\* ------------------------------------------------------------------------
\* messages delivered to worker w by the round that just finished
Delivered(w) == {m \in UNION {outbox[x] : x \in Workers} : owner[m.dst] = w}

\* global quiescence: nothing sent in the round and no ForceContinue vote
Quiescent == \A w \in Workers : outbox[w] = {} /\ ~force_continue[w]

\* ------------------------------------------------------------------------
\* Initial state: Query entered, app_->Init done, empty first round done
\* ------------------------------------------------------------------------
\* initial graphs: any subset of the candidate edges in which the tail edge
\* 4->5 sits on top of the whole chain 1->2->3->4
InitGraphs ==
  {G \in SUBSET EdgeUniverse :
     <<4, 5, 1>> \in G => {<<1, 2, 1>>, <<2, 3, 2>>, <<3, 4, 1>>} \subseteq G}

\* partitions: worker ids are interchangeable, the source is put on worker 1,
\* and so is vertex 5 as long as it is isolated
Partitions(G) ==
  {f \in [Vertices -> Workers] :
     /\ f[Source] = 1
     /\ <<4, 5, 1>> \notin G => f[5] = 1}

Init ==
  /\ graph0 \in InitGraphs
  /\ owner \in Partitions(graph0)
  /\ efile_update \in BOOLEAN
  /\ upd = [parsed |-> FALSE, del |-> {}, add |-> {}]
  /\ fragment_ = [w \in Workers |-> "old"]
  /\ values_ = [w \in Workers |-> AppInitValues]
  /\ deltas_ = [w \in Workers |-> AppInitDeltas(w)]
  /\ curr_modified_ = [w \in Workers |-> AppInitCurrModified(w)]
  /\ next_modified_ = [w \in Workers |-> {}]
  /\ curr_modified = [w \in Workers |-> {}]
  /\ next_modified = [w \in Workers |-> {}]
  /\ reset_vertices = [w \in Workers |-> {}]
  /\ n_reset = 0
  /\ batch_stage = [w \in Workers |-> TRUE]
  /\ step = [w \in Workers |-> 1]
  /\ reset_rounds = [w \in Workers |-> 0]
  /\ terminate = FALSE
  /\ force_continue = [w \in Workers |-> FALSE]
  /\ outbox = [w \in Workers |-> {}]
  /\ inbox = [w \in Workers |-> {}]
  /\ pc = [w \in Workers |-> "batch"]
  /\ n_term = [w \in Workers |-> 0]
  /\ fc_at_finish = [w \in Workers |-> FALSE]
  /\ emitted = [w \in Workers |-> {}]
  /\ batch_values = values_
  /\ batch_deltas = deltas_
  /\ last_sent = [w \in Workers |-> [v \in Vertices |-> IdentityDelta]]

\* ------------------------------------------------------------------------
\* Query: one batch round (StartARound .. FinishARound)
\* ------------------------------------------------------------------------
\* ParallelProcess of delta messages: AccumulateTo, activate on improvement
RECURSIVE DrainDeltas(_, _)
DrainDeltas(msgs, st) ==
  IF msgs = {} THEN st
  ELSE LET m == CHOOSE x \in msgs : TRUE
       IN DrainDeltas(msgs \ {m},
            [D  |-> AccumulateTo(st.D, m.dst, m.payload),
             cm |-> IF AccumulateImproves(st.D[m.dst], m.payload)
                      THEN st.cm \cup {m.dst} ELSE st.cm])

\* variant: the value is merged but Compute is not called
ComputeStepNoCompute(G, u, st) ==
  IF CombineValueDelta(st.V[u], st.D[u])
    THEN [st EXCEPT !.V[u] = st.D[u].value]
    ELSE st

\* the compute lambda of the batch round on one vertex u
ComputeStep(G, u, st) ==
  IF CombineValueDelta(st.V[u], st.D[u])
    THEN Compute(G, u, [st EXCEPT !.V[u] = st.D[u].value])
    ELSE st

\* ForEachSimple over curr_modified_ /\ inner_vertices in the given order
RECURSIVE ComputeFold(_, _, _)
ComputeFold(G, order, st) ==
  IF order = <<>> THEN st
  ELSE ComputeFold(G, Tail(order), ComputeStep(G, Head(order), st))

\* variant: every outer vertex is synchronised, whatever its delta
DeltaMessagesUnfiltered(w, D, nm, outer) ==
  {[type |-> "delta", src |-> w, dst |-> v, payload |-> D[v]] : v \in outer}

\* variant: the identity test is inverted
DeltaMessagesInverted(w, D, nm, outer) ==
  {[type |-> "delta", src |-> w, dst |-> v, payload |-> D[v]] :
     v \in {x \in nm \cap outer : D[x].value = Identity}}

\* delta messages for the outer vertices of nm with a non-identity delta
DeltaMessages(w, D, nm, outer) ==
  {[type |-> "delta", src |-> w, dst |-> v, payload |-> D[v]] :
     v \in {x \in nm \cap outer : D[x].value # Identity}}

\* variant: no vote is cast
BatchForceContinueNever(nm) == FALSE

\* if (app_->next_modified_.Count() > 0) messages_.ForceContinue()
BatchForceContinue(nm) == nm # {}

\* app_->curr_modified_ at StartARound: a round that follows a round of the
\* same loop starts after ++step and next_modified_.Swap(curr_modified_)
SwappedCurr(w) ==
  IF pc[w] = "batch_term" THEN next_modified_[w] ELSE curr_modified_[w]

BatchRound(w) ==
  /\ \/ pc[w] = "batch"
     \/ pc[w] = "batch_term" /\ ~terminate
  /\ LET G  == FragGraph(w)
         dr == DrainDeltas(inbox[w], [D |-> deltas_[w], cm |-> SwappedCurr(w)])
     IN \E order \in Orders(dr.cm \cap InnerVertices(w)) :
          LET st   == ComputeFold(G, order,
                        [V |-> values_[w], D |-> dr.D, nm |-> {}])
              msgs == DeltaMessages(w, st.D, st.nm, OuterVertices(w))
          IN /\ values_' = [values_ EXCEPT ![w] = st.V]
             /\ deltas_' = [deltas_ EXCEPT ![w] = st.D]
             /\ curr_modified_' = [curr_modified_ EXCEPT ![w] = dr.cm]
             /\ next_modified_' = [next_modified_ EXCEPT ![w] = st.nm]
             /\ outbox' = [outbox EXCEPT ![w] = msgs]
             /\ emitted' = [emitted EXCEPT ![w] = msgs]
             /\ last_sent' = [last_sent EXCEPT ![w] =
                  [v \in Vertices |->
                     IF \E m \in msgs : m.dst = v THEN st.D[v] ELSE @[v]]]
             /\ force_continue' = [force_continue EXCEPT ![w] = BatchForceContinue(st.nm)]
             /\ fc_at_finish' = [fc_at_finish EXCEPT ![w] = BatchForceContinue(st.nm)]
  /\ inbox' = [inbox EXCEPT ![w] = {}]
  /\ pc' = [pc EXCEPT ![w] = "batch_fin"]
  /\ step' = [step EXCEPT ![w] =
                IF pc[w] = "batch_term" /\ @ < MaxRound THEN @ + 1 ELSE @]
  /\ UNCHANGED <<graph0, owner, efile_update, upd, fragment_, curr_modified,
                 next_modified, reset_vertices, n_reset, batch_stage,
                 terminate, n_term, batch_values, batch_deltas,
                 reset_rounds>>

\* FinishARound barrier and ToTerminate() collective of the batch loop
BatchToTerminate ==
  /\ \A w \in Workers : pc[w] = "batch_fin"
  /\ terminate' = Quiescent
  /\ inbox' = [w \in Workers |-> Delivered(w)]
  /\ outbox' = [w \in Workers |-> {}]
  /\ pc' = [w \in Workers |-> "batch_term"]
  /\ UNCHANGED <<graph0, owner, efile_update, upd, fragment_, values_, deltas_,
                 curr_modified_, next_modified_, curr_modified, next_modified,
                 reset_vertices, n_reset, batch_stage, force_continue, n_term,
                 fc_at_finish, emitted, last_sent, batch_values, batch_deltas,
                 step, reset_rounds>>

\* variant: the error is logged but the loop is not left
MissingUpdateNoBreak(w) ==
  /\ pc[w] = "batch_term"
  /\ terminate
  /\ batch_stage[w]
  /\ ~efile_update
  /\ batch_stage' = [batch_stage EXCEPT ![w] = FALSE]
  /\ n_term' = [n_term EXCEPT ![w] = @ + 1]
  /\ batch_values' = [batch_values EXCEPT ![w] = values_[w]]
  /\ batch_deltas' = [batch_deltas EXCEPT ![w] = deltas_[w]]
  /\ curr_modified_' = [curr_modified_ EXCEPT ![w] = next_modified_[w]]
  /\ next_modified_' = [next_modified_ EXCEPT ![w] = curr_modified_[w]]
  /\ pc' = [pc EXCEPT ![w] = "batch"]
  /\ step' = [step EXCEPT ![w] = 1]
  /\ UNCHANGED <<graph0, owner, efile_update, upd, fragment_, values_, deltas_,
                 curr_modified, next_modified, reset_vertices, n_reset,
                 terminate, force_continue, outbox, inbox, fc_at_finish,
                 emitted, last_sent,
                 reset_rounds>>

\* batch phase terminated and no update file: log the error and break
MissingUpdate(w) ==
  /\ pc[w] = "batch_term"
  /\ terminate
  /\ batch_stage[w]
  /\ ~efile_update
  /\ batch_stage' = [batch_stage EXCEPT ![w] = FALSE]
  /\ n_term' = [n_term EXCEPT ![w] = @ + 1]
  /\ batch_values' = [batch_values EXCEPT ![w] = values_[w]]
  /\ batch_deltas' = [batch_deltas EXCEPT ![w] = deltas_[w]]
  /\ pc' = [pc EXCEPT ![w] = "barrier"]
  /\ step' = [step EXCEPT ![w] = 0]
  /\ UNCHANGED <<graph0, owner, efile_update, upd, fragment_, values_, deltas_,
                 curr_modified_, next_modified_, curr_modified, next_modified,
                 reset_vertices, n_reset, terminate, force_continue, outbox,
                 inbox, fc_at_finish, emitted, last_sent,
                 reset_rounds>>

\* variant: the parent gid of the target is not compared
SeedVerticesAnyParent(w, U, D) ==
  LET local_gid_set == InnerVertices(w) \cup OuterVertices(w)
  IN {v \in InnerVertices(w) :
        \E p \in U.del : p[1] \in local_gid_set /\ p[2] = v}

\* variant: only inner sources of deleted edges are looked up
SeedVerticesInnerOnly(w, U, D) ==
  LET local_gid_set == InnerVertices(w)
  IN {v \in InnerVertices(w) :
        \E p \in U.del :
           /\ p[1] \in local_gid_set
           /\ p[2] = v
           /\ DeltaParentGid(D, v) = p[1]}

\* batch phase terminated and an update file is configured: deltaCompute()
\* is entered; the update file is parsed and curr_modified is seeded
SeedVertices(w, U, D) ==
  LET local_gid_set == InnerVertices(w) \cup OuterVertices(w)
  IN {v \in InnerVertices(w) :
        \E p \in U.del :
           /\ p[1] \in local_gid_set
           /\ p[2] = v
           /\ DeltaParentGid(D, v) = p[1]}

EnterDeltaCompute(w) ==
  /\ pc[w] = "batch_term"
  /\ terminate
  /\ batch_stage[w]
  /\ efile_update
  /\ batch_stage' = [batch_stage EXCEPT ![w] = FALSE]
  /\ n_term' = [n_term EXCEPT ![w] = @ + 1]
  /\ batch_values' = [batch_values EXCEPT ![w] = values_[w]]
  /\ batch_deltas' = [batch_deltas EXCEPT ![w] = deltas_[w]]
  /\ \E U \in Updates(graph0) :
       /\ upd.parsed => U = upd
       /\ upd' = U
       /\ curr_modified' = [curr_modified EXCEPT ![w] = SeedVertices(w, U, deltas_[w])]
  /\ next_modified' = [next_modified EXCEPT ![w] = {}]
  /\ reset_vertices' = [reset_vertices EXCEPT ![w] = {}]
  /\ pc' = [pc EXCEPT ![w] = "reset"]
  /\ step' = [step EXCEPT ![w] = 0]
  /\ UNCHANGED <<graph0, owner, efile_update, fragment_, values_, deltas_,
                 curr_modified_, next_modified_, n_reset, terminate,
                 force_continue, outbox, inbox, fc_at_finish, emitted, last_sent,
                 reset_rounds>>

\* variant: the loop is left without looking at terminate
IncDoneEarly(w) ==
  /\ pc[w] = "batch_term"
  /\ ~batch_stage[w]
  /\ n_term' = [n_term EXCEPT ![w] = IF terminate THEN @ + 1 ELSE @]
  /\ pc' = [pc EXCEPT ![w] = "barrier"]
  /\ UNCHANGED <<graph0, owner, efile_update, upd, fragment_, values_, deltas_,
                 curr_modified_, next_modified_, curr_modified, next_modified,
                 reset_vertices, n_reset, batch_stage, terminate,
                 force_continue, outbox, inbox, fc_at_finish, emitted,
                 last_sent, batch_values, batch_deltas,
                 step, reset_rounds>>

\* incremental phase terminated: break
IncDone(w) ==
  /\ pc[w] = "batch_term"
  /\ terminate
  /\ ~batch_stage[w]
  /\ n_term' = [n_term EXCEPT ![w] = @ + 1]
  /\ pc' = [pc EXCEPT ![w] = "barrier"]
  /\ UNCHANGED <<graph0, owner, efile_update, upd, fragment_, values_, deltas_,
                 curr_modified_, next_modified_, curr_modified, next_modified,
                 reset_vertices, n_reset, batch_stage, terminate,
                 force_continue, outbox, inbox, fc_at_finish, emitted, last_sent,
                 batch_values, batch_deltas,
                 step, reset_rounds>>

\* ------------------------------------------------------------------------
\* deltaCompute: one round of the reset loop
\* ------------------------------------------------------------------------
\* variant: received empty messages are dropped
DrainEmptyIgnored(msgs, cm) == cm

\* ParallelProcess of empty messages: the named vertex is activated
DrainEmpty(msgs, cm) == cm \cup {m.dst : m \in msgs}

\* variant: the parent test is applied to u instead of the neighbour
ResetChildrenSwapped(w, G, D, cm) ==
  {v \in Vertices :
     \E u \in cm \cap InnerVertices(w) :
        \E e \in GetOutgoingAdjList(G, u) :
           e[2] = v /\ DeltaParentGid(D, u) = v}

\* children by parent gid of the inner vertices being reset
ResetChildren(w, G, D, cm) ==
  {v \in Vertices :
     \E u \in cm \cap InnerVertices(w) :
        \E e \in GetOutgoingAdjList(G, u) :
           e[2] = v /\ DeltaParentGid(D, v) = u}

\* variant: the invalidation is not forwarded to the owners
EmptyMessagesDropped(w, nm, outer) ==
  {[type |-> "empty", src |-> w, dst |-> v, payload |-> IdentityDelta] :
     v \in nm \cap InnerVertices(w) \cap outer}

\* empty-payload sync for every outer vertex of next_modified
EmptyMessages(w, nm, outer) ==
  {[type |-> "empty", src |-> w, dst |-> v, payload |-> IdentityDelta] :
     v \in nm \cap outer}

\* variant: no vote is cast
ResetForceContinueNever(nm) == FALSE

\* if (next_modified.Count() > 0) messages_.ForceContinue()
ResetForceContinue(nm) == nm # {}

\* variant: the mirror of a notified outer vertex keeps its delta
ResetDeltasKeepMirror(D, rs, mirrors) ==
  [v \in Vertices |-> IF v \in rs THEN IdentityDelta ELSE D[v]]

\* deltas_ after the round: inner vertices being reset and the outer
\* vertices an empty message was sent for are set to identity
ResetDeltas(D, rs, mirrors) ==
  [v \in Vertices |-> IF v \in rs \cup mirrors THEN IdentityDelta ELSE D[v]]

ResetRound(w) ==
  /\ \/ pc[w] = "reset"
     \/ pc[w] = "reset_term" /\ ~terminate
  /\ LET inn  == InnerVertices(w)
         out  == OuterVertices(w)
         cm   == DrainEmpty(inbox[w], curr_modified[w])
         nm   == next_modified[w] \cup ResetChildren(w, FragGraph(w), deltas_[w], cm)
         rs   == cm \cap inn
         msgs == EmptyMessages(w, nm, out)
     IN /\ values_' = [values_ EXCEPT ![w] =
               [v \in Vertices |-> IF v \in rs THEN Identity ELSE values_[w][v]]]
        /\ deltas_' = [deltas_ EXCEPT ![w] = ResetDeltas(deltas_[w], rs, nm \cap out)]
        /\ reset_vertices' = [reset_vertices EXCEPT ![w] = @ \cup rs]
        /\ outbox' = [outbox EXCEPT ![w] = msgs]
        /\ emitted' = [emitted EXCEPT ![w] = msgs]
        \* FinishARound is called here; the vote is cast after it
        /\ fc_at_finish' = [fc_at_finish EXCEPT ![w] = FALSE]
        /\ force_continue' = [force_continue EXCEPT ![w] = ResetForceContinue(nm)]
        \* curr_modified.Clear(); curr_modified.Swap(next_modified)
        /\ curr_modified' = [curr_modified EXCEPT ![w] = nm]
        /\ next_modified' = [next_modified EXCEPT ![w] = {}]
  /\ inbox' = [inbox EXCEPT ![w] = {}]
  /\ pc' = [pc EXCEPT ![w] = "reset_fin"]
  /\ reset_rounds' = [reset_rounds EXCEPT ![w] =
                        IF @ < MaxRound THEN @ + 1 ELSE @]
  /\ UNCHANGED <<graph0, owner, efile_update, upd, fragment_, curr_modified_,
                 next_modified_, n_reset, batch_stage, terminate, n_term,
                 last_sent, batch_values, batch_deltas,
                 step>>

\* ToTerminate() collective of the reset loop
ResetToTerminate ==
  /\ \A w \in Workers : pc[w] = "reset_fin"
  /\ terminate' = Quiescent
  /\ inbox' = [w \in Workers |-> Delivered(w)]
  /\ outbox' = [w \in Workers |-> {}]
  /\ pc' = [w \in Workers |-> "reset_term"]
  /\ UNCHANGED <<graph0, owner, efile_update, upd, fragment_, values_, deltas_,
                 curr_modified_, next_modified_, curr_modified, next_modified,
                 reset_vertices, n_reset, batch_stage, force_continue, n_term,
                 fc_at_finish, emitted, last_sent, batch_values, batch_deltas,
                 step, reset_rounds>>

\* variant: the loop is left without looking at ToTerminate()
ResetExitEarly(w) ==
  /\ pc[w] = "reset_term"
  /\ pc' = [pc EXCEPT ![w] = "sum"]
  /\ UNCHANGED <<graph0, owner, efile_update, upd, fragment_, values_, deltas_,
                 curr_modified_, next_modified_, curr_modified, next_modified,
                 reset_vertices, n_reset, batch_stage, terminate,
                 force_continue, outbox, inbox, n_term, fc_at_finish, emitted,
                 last_sent, batch_values, batch_deltas,
                 step, reset_rounds>>

\* reset loop left: local_n_reset is handed to communicator.Sum
ResetExit(w) ==
  /\ pc[w] = "reset_term"
  /\ terminate
  /\ pc' = [pc EXCEPT ![w] = "sum"]
  /\ UNCHANGED <<graph0, owner, efile_update, upd, fragment_, values_, deltas_,
                 curr_modified_, next_modified_, curr_modified, next_modified,
                 reset_vertices, n_reset, batch_stage, terminate,
                 force_continue, outbox, inbox, n_term, fc_at_finish, emitted, last_sent,
                 batch_values, batch_deltas,
                 step, reset_rounds>>

RECURSIVE SumCounts(_)
SumCounts(ws) ==
  IF ws = {} THEN 0
  ELSE LET w == CHOOSE x \in ws : TRUE
       IN Cardinality(reset_vertices[w]) + SumCounts(ws \ {w})

\* communicator.Sum(local_n_reset, n_reset)
Sum ==
  /\ \A w \in Workers : pc[w] = "sum"
  /\ n_reset' = SumCounts(Workers)
  /\ pc' = [w \in Workers |-> "rebuild"]
  /\ UNCHANGED <<graph0, owner, efile_update, upd, fragment_, values_, deltas_,
                 curr_modified_, next_modified_, curr_modified, next_modified,
                 reset_vertices, batch_stage, terminate, force_continue,
                 outbox, inbox, n_term, fc_at_finish, emitted, last_sent, batch_values,
                 batch_deltas,
                 step, reset_rounds>>

\* ------------------------------------------------------------------------
\* deltaCompute: snapshot, Build, app_->Init, copy back, kickoff round
\* ------------------------------------------------------------------------
\* variant: the snapshot is not copied back
RestoredValuesNotCopied(w) == AppInitValues

\* values_ after app_->Init and the copy back over inner vertices
RestoredValues(w) ==
  [v \in Vertices |-> IF v \in InnerVertices(w) THEN values_[w][v] ELSE AppInitValues[v]]

\* variant: the snapshot of the deltas is not copied back
RestoredDeltasNotCopied(w) == AppInitDeltas(w)

\* deltas_ after app_->Init and the copy back over inner vertices
RestoredDeltas(w) ==
  [v \in Vertices |->
     IF v \in InnerVertices(w) THEN deltas_[w][v] ELSE AppInitDeltas(w)[v]]

\* variant: Compute is gated by CombineValueDelta as in a batch round
KickoffStepGated(G, u, st) ==
  IF CombineValueDelta(st.V[u], st.D[u])
    THEN Compute(G, u, [st EXCEPT !.V[u] = st.D[u].value])
    ELSE st

\* the kickoff loop body: Compute without a CombineValueDelta gate
KickoffStep(G, u, st) ==
  IF st.D[u].value # Identity THEN Compute(G, u, st) ELSE st

RECURSIVE KickoffFold(_, _, _)
KickoffFold(G, order, st) ==
  IF order = <<>> THEN st
  ELSE KickoffFold(G, Tail(order), KickoffStep(G, Head(order), st))

\* snapshot of the inner entries, Build, app_->Init on the new fragment and
\* copy back; no round is open
Rebuild(w) ==
  /\ pc[w] = "rebuild"
  /\ fragment_' = [fragment_ EXCEPT ![w] = "new"]
  /\ values_' = [values_ EXCEPT ![w] = RestoredValues(w)]
  /\ deltas_' = [deltas_ EXCEPT ![w] = RestoredDeltas(w)]
  /\ curr_modified_' = [curr_modified_ EXCEPT ![w] = AppInitCurrModified(w)]
  /\ next_modified_' = [next_modified_ EXCEPT ![w] = {}]
  /\ pc' = [pc EXCEPT ![w] = "kickoff"]
  /\ UNCHANGED <<graph0, owner, efile_update, upd, curr_modified,
                 next_modified, reset_vertices, n_reset, batch_stage,
                 terminate, force_continue, outbox, inbox, n_term,
                 fc_at_finish, emitted, last_sent, batch_values,
                 batch_deltas,
                 step, reset_rounds>>

\* the kickoff round: StartARound, Compute on every inner vertex with a
\* non-identity delta, send, up to FinishARound
Kickoff(w) ==
  /\ pc[w] = "kickoff"
  /\ LET G    == FragGraph(w)
         st   == KickoffFold(G, Ascending(InnerVertices(w)),
                   [V |-> values_[w], D |-> deltas_[w],
                    nm |-> next_modified[w]])
         msgs == DeltaMessages(w, st.D, st.nm, OuterVertices(w))
     IN /\ values_' = [values_ EXCEPT ![w] = st.V]
        /\ deltas_' = [deltas_ EXCEPT ![w] = st.D]
        /\ next_modified' = [next_modified EXCEPT ![w] = st.nm]
        /\ outbox' = [outbox EXCEPT ![w] = msgs]
        /\ emitted' = [emitted EXCEPT ![w] = msgs]
        /\ last_sent' = [last_sent EXCEPT ![w] =
             [v \in Vertices |->
                IF \E m \in msgs : m.dst = v THEN st.D[v] ELSE IdentityDelta]]
  /\ force_continue' = [force_continue EXCEPT ![w] = FALSE]
  /\ fc_at_finish' = [fc_at_finish EXCEPT ![w] = FALSE]
  /\ pc' = [pc EXCEPT ![w] = "kick_fin"]
  /\ UNCHANGED <<graph0, owner, efile_update, upd, fragment_, curr_modified_,
                 next_modified_, curr_modified, reset_vertices, n_reset,
                 batch_stage, terminate, inbox, n_term, batch_values,
                 batch_deltas,
                 step, reset_rounds>>

\* FinishARound barrier of the kickoff round
KickoffFinish ==
  /\ \A w \in Workers : pc[w] = "kick_fin"
  /\ inbox' = [w \in Workers |-> Delivered(w)]
  /\ outbox' = [w \in Workers |-> {}]
  /\ pc' = [w \in Workers |-> "resume"]
  /\ UNCHANGED <<graph0, owner, efile_update, upd, fragment_, values_, deltas_,
                 curr_modified_, next_modified_, curr_modified, next_modified,
                 reset_vertices, n_reset, batch_stage, terminate,
                 force_continue, n_term, fc_at_finish, emitted, last_sent, batch_values,
                 batch_deltas,
                 step, reset_rounds>>

\* app_->next_modified_.Swap(next_modified); return to Query; ++step;
\* app_->next_modified_.Swap(app_->curr_modified_)
Resume(w) ==
  /\ pc[w] = "resume"
  /\ curr_modified_' = [curr_modified_ EXCEPT ![w] = next_modified[w]]
  /\ next_modified_' = [next_modified_ EXCEPT ![w] = curr_modified_[w]]
  /\ curr_modified' = [curr_modified EXCEPT ![w] = {}]
  /\ next_modified' = [next_modified EXCEPT ![w] = {}]
  /\ reset_vertices' = [reset_vertices EXCEPT ![w] = {}]
  /\ pc' = [pc EXCEPT ![w] = "batch"]
  /\ step' = [step EXCEPT ![w] = @ + 1]
  /\ UNCHANGED <<graph0, owner, efile_update, upd, fragment_, values_, deltas_,
                 n_reset, batch_stage, terminate, force_continue, outbox,
                 inbox, n_term, fc_at_finish, emitted, last_sent, batch_values,
                 batch_deltas,
                 reset_rounds>>

\* MPI_Barrier at the end of Query
FinalBarrier ==
  /\ \A w \in Workers : pc[w] = "barrier"
  /\ pc' = [w \in Workers |-> "done"]
  /\ UNCHANGED <<graph0, owner, efile_update, upd, fragment_, values_, deltas_,
                 curr_modified_, next_modified_, curr_modified, next_modified,
                 reset_vertices, n_reset, batch_stage, terminate,
                 force_continue, outbox, inbox, n_term, fc_at_finish, emitted, last_sent,
                 batch_values, batch_deltas,
                 step, reset_rounds>>

Next ==
  \/ \E w \in Workers : BatchRound(w)
  \/ BatchToTerminate
  \/ \E w \in Workers : MissingUpdate(w)
  \/ \E w \in Workers : EnterDeltaCompute(w)
  \/ \E w \in Workers : IncDone(w)
  \/ \E w \in Workers : ResetRound(w)
  \/ ResetToTerminate
  \/ \E w \in Workers : ResetExit(w)
  \/ Sum
  \/ \E w \in Workers : Rebuild(w)
  \/ \E w \in Workers : Kickoff(w)
  \/ KickoffFinish
  \/ \E w \in Workers : Resume(w)
  \/ FinalBarrier

Spec == Init /\ [][Next]_vars

AllAt(S) == \A w \in Workers : pc[w] \in S

\* every worker process keeps running, and a collective completes once all
\* workers have entered it
WorkerStep(w) ==
  \/ BatchRound(w) \/ MissingUpdate(w) \/ EnterDeltaCompute(w) \/ IncDone(w)
  \/ ResetRound(w) \/ ResetExit(w) \/ Rebuild(w) \/ Kickoff(w)
  \/ Resume(w)

Collective ==
  \/ BatchToTerminate \/ ResetToTerminate \/ Sum \/ KickoffFinish
  \/ FinalBarrier

\* enabling conditions of WorkerStep(w) and of Collective: a worker that is
\* neither waiting in a collective nor past its loop has a step to take
WorkerReady(w) ==
  pc[w] \in {"batch", "batch_term", "reset", "reset_term", "rebuild",
            "kickoff", "resume"}

CollectiveReady ==
  \/ AllAt({"batch_fin"}) \/ AllAt({"reset_fin"}) \/ AllAt({"sum"})
  \/ AllAt({"kick_fin"}) \/ AllAt({"barrier"})

\* weak fairness of every worker and of the collectives, with the enabling
\* conditions written out
FairSpec ==
  /\ Init /\ [][Next]_vars
  /\ \A w \in Workers : []<>(~WorkerReady(w)) \/ []<><<WorkerStep(w)>>_vars
  /\ []<>(~CollectiveReady) \/ []<><<Collective>>_vars

\* ------------------------------------------------------------------------
\* Properties
\* ------------------------------------------------------------------------
Triangle == {<<1, 2, 1>>, <<2, 3, 2>>, <<1, 3, 5>>}
Chain == {<<1, 2, 1>>, <<2, 3, 2>>, <<3, 4, 1>>, <<4, 5, 1>>}

\* value of gid v on the worker that owns it
OwnerValue(v) == values_[owner[v]][v]

\* C5: when the batch loop first observes ToTerminate(), the value of every
\* inner vertex of every worker is the least fixpoint of the kernel on the
\* initial graph (the shortest distance from the source, identity if
\* unreachable)
BatchConvergence ==
  \A w \in Workers :
    (pc[w] = "batch_term" /\ terminate /\ batch_stage[w]) =>
      LET lfp == LeastFixpoint(graph0)
      IN \A v \in InnerVertices(w) : values_[w][v] = lfp[v]

\* the triangle of scenario S1, partition {1,2} | {3}, converged to 0, 1, 3
BatchConvergenceWitness ==
  /\ graph0 = Triangle
  /\ owner[2] = 1 /\ owner[3] = 2
  /\ AllAt({"batch_term"}) /\ terminate /\ batch_stage[1]
  /\ values_[1][1] = 0 /\ values_[1][2] = 1 /\ values_[2][3] = 3

\* C4: with no update file Query leaves its loop at the first termination of
\* the batch phase: deltaCompute is never entered, the fragment is not
\* replaced, no reset or kickoff round runs, V and D at return are those of
\* batch termination, and a worker is at the final barrier only together
\* with peers that observed the same termination
MissingUpdateSkipsIncremental ==
  ~efile_update =>
    \A w \in Workers :
      /\ pc[w] \in {"batch", "batch_fin", "batch_term", "barrier", "done"}
      /\ fragment_[w] = "old"
      /\ reset_vertices[w] = {} /\ n_reset = 0 /\ ~upd.parsed
      /\ pc[w] \in {"barrier", "done"} =>
           /\ values_[w] = batch_values[w]
           /\ deltas_[w] = batch_deltas[w]
           /\ n_term[w] = 1
           /\ AllAt({"batch_term", "barrier", "done"})

\* Query returned everywhere without an update file, on a converged triangle
MissingUpdateWitness ==
  /\ ~efile_update
  /\ AllAt({"done"})
  /\ graph0 = Triangle /\ owner[3] = 2
  /\ values_[2][3] = 3

\* the reset loop has been left on every worker and no fragment is rebuilt yet
ResetLoopExited == AllAt({"sum", "rebuild"})

\* parent gid the owner of v recorded at the end of the batch phase
ParentAtBatch(v) == batch_deltas[owner[v]][v].parent

\* the parent chain of v passes through a deleted parent edge
RECURSIVE DependsOnDeleted(_, _)
DependsOnDeleted(v, n) ==
  IF n = 0 THEN FALSE
  ELSE LET p == ParentAtBatch(v)
       IN IF p = NoParent \/ p = v THEN FALSE
          ELSE <<p, v>> \in upd.del \/ DependsOnDeleted(p, n - 1)

Dependent(v) == DependsOnDeleted(v, Cardinality(Vertices))

ResetSoundness ==
  ResetLoopExited =>
    /\ \A v \in Vertices :
         ~Dependent(v) =>
           /\ values_[owner[v]][v] = batch_values[owner[v]][v]
           /\ deltas_[owner[v]][v] = batch_deltas[owner[v]][v]
    /\ UNION {reset_vertices[w] : w \in Workers} = {v \in Vertices : Dependent(v)}

\* C1: when Query with an update set has returned on all workers, the value
\* of every inner vertex equals the result of the batch phase alone on the
\* updated graph, i.e. (by BatchConvergence) its least fixpoint
IncrementalEqualsBatch ==
  (efile_update /\ AllAt({"done"})) =>
    LET lfp == LeastFixpoint(UpdatedGraph)
    IN \A v \in Vertices : OwnerValue(v) = lfp[v]

ParentEdgeExists(w, v) ==
  \E e \in FragGraph(w) : e[1] = deltas_[w][v].parent /\ e[2] = v

\* ... and V[v] is the value justified through that edge
ParentJustifies(w, v) ==
  \E e \in FragGraph(w) :
     /\ e[1] = deltas_[w][v].parent /\ e[2] = v
     /\ values_[w][v] = OwnerValue(e[1]) + e[3]

RoundBoundary ==
  \/ AllAt({"batch_term"}) \/ AllAt({"reset_term"})
  \/ AllAt({"resume"}) \/ AllAt({"done"})

OuterMirrorTransience ==
  \A w \in Workers :
    pc[w] \in {"batch_fin", "reset_fin", "kick_fin"} =>
      \A v \in OuterVertices(w) :
        \/ deltas_[w][v] = IdentityDelta
        \/ \E m \in emitted[w] :
             m.type = "delta" /\ m.dst = v /\ m.payload = deltas_[w][v]

\* C8 amended: the delta of an outer vertex is identity or the payload of
\* the last delta message the worker emitted for it on the fragment it
\* holds, in that round or an earlier one
OuterMirrorIsLastPayload ==
  \A w \in Workers :
    \A v \in Vertices \ InnerVertices(w) :
      deltas_[w][v] = IdentityDelta \/ deltas_[w][v] = last_sent[w][v]

\* a round has finished in which nothing was emitted for a mirror that
\* still holds the payload of an earlier round
OuterMirrorWitness ==
  \E w \in Workers :
    /\ pc[w] = "batch_fin"
    /\ emitted[w] = {}
    /\ \E v \in OuterVertices(w) :
         deltas_[w][v] # IdentityDelta /\ deltas_[w][v] = last_sent[w][v]

\* C9: in every step outside the reset loop (batch rounds before and after
\* the rebuild, the rebuild and kickoff round) the value of an inner vertex
\* never regresses, and it changes only to a strict improvement that its
\* delta supports
MonoidMonotonicity ==
  [][\A w \in Workers :
       pc'[w] # "reset_fin" =>
         \A v \in InnerVertices(w) :
           /\ values_'[w][v] <= values_[w][v]
           /\ values_'[w][v] # values_[w][v] =>
                deltas_'[w][v].value <= values_'[w][v]]_vars

\* a retained value improves after the rebuild
MonotonicityWitness ==
  \E w \in Workers :
    \E v \in InnerVertices(w) :
      /\ fragment_[w] = "new" /\ pc[w] = "batch_fin"
      /\ batch_values[w][v] < Identity
      /\ values_[w][v] < batch_values[w][v]

\* C10 as stated: Query returns only after two ToTerminate() = true
\* observations in its main loop
TwoQuiescenceObservations ==
  \A w \in Workers : pc[w] \in {"barrier", "done"} => n_term[w] = 2

\* C10 amended: with an update file configured Query returns after exactly
\* two ToTerminate() = true observations in its main loop, with none
\* configured after exactly one
QuiescenceObservations ==
  \A w \in Workers :
    pc[w] \in {"barrier", "done"} => n_term[w] = IF efile_update THEN 2 ELSE 1

\* Query returned everywhere after a batch and an incremental phase
QuiescenceWitness ==
  /\ efile_update /\ AllAt({"done"})
  /\ \A w \in Workers : n_term[w] = 2 /\ fragment_[w] = "new"

Termination ==
  /\ <>(AllAt({"batch_term"}) /\ terminate)
  /\ efile_update => <>(AllAt({"reset_term"}) /\ terminate)
  /\ <>AllAt({"done"})

\* Query returned after an incremental phase that reset vertices on both
\* workers
TerminationWitness ==
  /\ efile_update /\ AllAt({"done"})
  /\ n_reset >= 2
  /\ \A w \in Workers : fragment_[w] = "new"

BatchQuiescence ==
  /\ \A w \in Workers :
       pc[w] = "batch_fin" => (fc_at_finish[w] <=> next_modified_[w] # {})
  /\ \A w \in Workers :
       (pc[w] = "batch_term" /\ terminate) =>
         \A x \in Workers : next_modified_[x] = {} /\ inbox[x] = {}
  /\ (AllAt({"batch_term"}) /\ terminate) =>
       \A x \in Workers : emitted[x] = {} /\ outbox[x] = {}

\* the post-rebuild batch loop observes termination after a vertex owned by
\* worker 2 was reset and re-derived
BatchQuiescenceWitness ==
  /\ AllAt({"batch_term"}) /\ terminate
  /\ \A w \in Workers : ~batch_stage[w] /\ fragment_[w] = "new"
  /\ n_reset > 0
  /\ \E v \in InnerVertices(2) : values_[2][v] # Identity

\* next_modified the send loop of the round just finished iterated over
SentFrom(w) ==
  IF pc[w] = "kick_fin" THEN next_modified[w] ELSE next_modified_[w]

\* C14: every message enqueued in a batch round or in the kickoff round is a
\* delta message for an outer vertex of next_modified that carries the
\* vertex's current delta, and its value is never the identity
IdentitySuppression ==
  \A w \in Workers :
    pc[w] \in {"batch_fin", "kick_fin"} =>
      \A m \in emitted[w] :
        /\ m.type = "delta"
        /\ m.payload.value # Identity
        /\ m.dst \in OuterVertices(w) \cap SentFrom(w)
        /\ m.payload = deltas_[w][m.dst]

\* a kickoff round in which a retained delta was re-sent to a peer while
\* another mirror of the worker stays at identity
IdentitySuppressionWitness ==
  \E w \in Workers :
    /\ pc[w] = "kick_fin"
    /\ emitted[w] # {}
    /\ \E v \in OuterVertices(w) :
         deltas_[w][v] = IdentityDelta /\ \A m \in emitted[w] : m.dst # v

\* C15: before the first reset round, v is in curr_modified on worker w iff
\* v is an inner vertex of w and some deleted edge (u, v) has u present on w
\* (inner or outer) and u = DeltaParentGid(v); seeding sends no message and
\* leaves V and D as they were when the batch phase terminated
SeedingRule ==
  \A w \in Workers :
    pc[w] = "reset" =>
      /\ \A v \in Vertices :
           v \in curr_modified[w] <=>
             /\ v \in InnerVertices(w)
             /\ \E p \in upd.del :
                  /\ p[1] \in InnerVertices(w) \cup OuterVertices(w)
                  /\ p[2] = v
                  /\ deltas_[w][v].parent = p[1]
      /\ next_modified[w] = {} /\ reset_vertices[w] = {}
      /\ outbox[w] = {} /\ inbox[w] = {}
      /\ values_[w] = batch_values[w]
      /\ deltas_[w] = batch_deltas[w]

\* a worker seeds the target of a deleted edge whose source it holds only
\* as a mirror
SeedingWitness ==
  /\ AllAt({"reset"})
  /\ \E w \in Workers :
       \E p \in upd.del : p[2] \in curr_modified[w] /\ owner[p[1]] # w

\* curr_modified of worker w once the inbound empty messages are drained
ResetSetOf(w) == curr_modified[w] \cup {m.dst : m \in inbox[w]}

\* C16: a reset round of worker w sets V and D of every inner vertex of
\* curr_modified to identity and records it in reset_vertices; for every
\* outer vertex of next_modified it sends one empty message and sets D to
\* identity; V and D of all other vertices are unchanged and reset_vertices
\* only grows; at loop exit reset_vertices is exactly the set of inner
\* vertices whose state was reset
ResetRoundEffect ==
  /\ [][\A w \in Workers :
         (pc[w] # "reset_fin" /\ pc'[w] = "reset_fin") =>
           LET rs == ResetSetOf(w) \cap InnerVertices(w)
               no == curr_modified'[w] \cap OuterVertices(w)
           IN /\ \A u \in rs :
                   /\ values_'[w][u] = Identity
                   /\ deltas_'[w][u] = IdentityDelta
                   /\ u \in reset_vertices'[w]
              /\ \A v \in no :
                   /\ deltas_'[w][v] = IdentityDelta
                   /\ Cardinality({m \in emitted'[w] : m.dst = v}) = 1
              /\ \A m \in emitted'[w] : m.type = "empty" /\ m.dst \in no
              /\ outbox'[w] = emitted'[w]
              /\ \A v \in Vertices \ rs : values_'[w][v] = values_[w][v]
              /\ \A v \in Vertices \ (rs \cup no) : deltas_'[w][v] = deltas_[w][v]
              /\ reset_vertices'[w] = reset_vertices[w] \cup rs]_vars
  /\ [](\A w \in Workers :
         pc[w] \in {"sum", "rebuild"} =>
           reset_vertices[w] =
             {v \in InnerVertices(w) :
                deltas_[w][v] = IdentityDelta /\ batch_deltas[w][v] # IdentityDelta})

\* a round ended in which a worker reset an inner vertex named by a peer's
\* empty message and cleared a mirror of its own
ResetRoundWitness ==
  \E w \in Workers :
    /\ pc[w] = "reset_fin"
    /\ \E u \in reset_vertices[w] :
         u \notin SeedVertices(w, upd, batch_deltas[w])
    /\ \E m \in emitted[w] :
         /\ batch_deltas[w][m.dst] # IdentityDelta
         /\ deltas_[w][m.dst] = IdentityDelta

\* C17: the step from the exit of the reset loop to the end of the copy
\* back replaces the fragment and leaves V and D of every inner vertex as
\* they were when the reset loop exited; D of every outer vertex of the new
\* fragment is identity
StateTransfer ==
  [][\A w \in Workers :
       /\ (pc[w] \in {"reset_term", "sum"} /\ pc'[w] \in {"sum", "rebuild"}) =>
            values_'[w] = values_[w] /\ deltas_'[w] = deltas_[w]
       /\ (pc[w] = "rebuild" /\ pc'[w] = "kickoff") =>
            /\ fragment_[w] = "old" /\ fragment_'[w] = "new"
            /\ \A v \in InnerVertices(w) :
                 /\ values_'[w][v] = values_[w][v]
                 /\ deltas_'[w][v] = deltas_[w][v]
            /\ \A v \in OuterVerticesOf(UpdatedGraph, w) :
                 deltas_'[w][v] = IdentityDelta]_vars

\* nothing was reset, a worker has just copied back a retained inner value
\* and the rebuild has discarded a mirror that held a delta
StateTransferWitness ==
  \E w \in Workers :
    /\ pc[w] = "kickoff" /\ n_reset = 0
    /\ \E v \in InnerVertices(w) \ {Source} : values_[w][v] # Identity
    /\ \E v \in OuterVertices(w) :
         batch_deltas[w][v] # IdentityDelta /\ deltas_[w][v] = IdentityDelta

\* C18: the kickoff round runs Compute, without a CombineValueDelta gate, on
\* every inner vertex with a non-identity delta (its delta is pushed over
\* every outgoing edge and V is left alone) and on no vertex with identity
\* delta (every activated vertex was improved through an inner parent with
\* a non-identity delta); the activated vertices become curr_modified_ of
\* the next batch round; that round runs before Query can leave its loop
\* and drains every kickoff message
KickoffAndResume ==
  [][\A w \in Workers :
       /\ (pc[w] = "kickoff" /\ pc'[w] = "kick_fin") =>
            LET act == {v \in Vertices : deltas_'[w][v] # deltas_[w][v]}
            IN /\ values_'[w] = values_[w]
               /\ next_modified'[w] = act
               /\ \A u \in InnerVertices(w) :
                    deltas_[w][u].value # Identity =>
                      \A e \in GetOutgoingAdjList(FragGraph(w), u) :
                        deltas_'[w][e[2]].value <= deltas_[w][u].value + e[3]
               /\ \A v \in act :
                    \E e \in FragGraph(w) :
                      /\ e[2] = v /\ e[1] \in InnerVertices(w)
                      /\ deltas_'[w][v].parent = e[1]
                      /\ deltas_'[w][e[1]].value # Identity
                      /\ deltas_'[w][v].value >= deltas_'[w][e[1]].value + e[3]
                      /\ deltas_'[w][v].value <= deltas_[w][e[1]].value + e[3]
       /\ (pc[w] = "resume" /\ pc'[w] # "resume") =>
            pc'[w] = "batch" /\ curr_modified_'[w] = next_modified[w]
       /\ (pc[w] = "batch" /\ pc'[w] # "batch") =>
            /\ pc'[w] = "batch_fin" /\ inbox'[w] = {}
            /\ \A m \in inbox[w] :
                 deltas_'[w][m.dst].value <= m.payload.value
       /\ (pc[w] # "barrier" /\ pc'[w] = "barrier") => pc[w] = "batch_term"]_vars

\* a kickoff round ended in which a retained vertex, whose value already
\* equals its delta, re-sent that delta towards a vertex its owner had reset
KickoffWitness ==
  \E w \in Workers :
    /\ pc[w] = "kick_fin" /\ n_reset > 0
    /\ \E m \in emitted[w] :
         /\ values_[owner[m.dst]][m.dst] = Identity
         /\ values_[w][m.payload.parent] = deltas_[w][m.payload.parent].value

\* the worker has started a round and is in its FinishARound
RoundOpen(w) == pc[w] \in {"batch_fin", "reset_fin", "kick_fin"}

\* C19: a worker with an open round starts no other round before that
\* round's FinishARound has completed; the fragment is replaced only by the
\* rebuild step, once, from the loaded to the updated fragment, when the
\* worker has no round open and no message of or for it is in flight, after
\* the reset loop and before the kickoff round; with no update file the
\* fragment is never replaced
RoundBracketing ==
  /\ [][\A w \in Workers :
         /\ (RoundOpen(w) /\ pc'[w] # pc[w]) =>
              pc'[w] \in {"batch_term", "reset_term", "resume"}
         /\ (~RoundOpen(w) /\ pc'[w] \in {"batch_fin", "reset_fin", "kick_fin"}) =>
              pc[w] \in {"batch", "batch_term", "reset", "reset_term", "kickoff"}
         /\ fragment_'[w] # fragment_[w] =>
              /\ efile_update
              /\ pc[w] = "rebuild" /\ pc'[w] = "kickoff"
              /\ fragment_[w] = "old" /\ fragment_'[w] = "new"
              /\ inbox[w] = {} /\ outbox[w] = {}
              /\ curr_modified[w] = {} /\ next_modified[w] = {}
              /\ \A x \in Workers : pc[x] \in {"rebuild", "kickoff", "kick_fin"}]_vars
  /\ [](\A w \in Workers :
         fragment_[w] =
           IF pc[w] \in {"kickoff", "kick_fin", "resume"}
                \/ (efile_update /\ ~batch_stage[w]
                      /\ pc[w] \in {"batch", "batch_fin", "batch_term", "barrier", "done"})
             THEN "new" ELSE "old")

\* one worker is finishing its kickoff round on the new fragment, with a
\* message sent, while its peer has not replaced its fragment yet
RoundBracketingWitness ==
  \E w, x \in Workers :
    /\ pc[w] = "kick_fin" /\ fragment_[w] = "new" /\ emitted[w] # {}
    /\ pc[x] = "rebuild" /\ fragment_[x] = "old"

\* C20: workers at the same position have executed the same number of batch
\* rounds and of reset rounds and have seen the same terminations; a worker
\* blocked in a FinishARound, in Sum or in the final barrier has every peer
\* either in the same collective or on its way to it, never past the loop;
\* and some worker or collective can always proceed until Query has
\* returned everywhere
Lockstep ==
  /\ \A w, x \in Workers :
       /\ pc[w] = pc[x] =>
            /\ step[w] = step[x] /\ reset_rounds[w] = reset_rounds[x]
            /\ batch_stage[w] = batch_stage[x] /\ n_term[w] = n_term[x]
       /\ pc[w] = "batch_fin" =>
            /\ pc[x] \in {"batch", "batch_fin", "batch_term", "resume"}
            /\ pc[x] = "batch_term" => ~terminate /\ step[x] + 1 = step[w]
       /\ pc[w] = "reset_fin" =>
            /\ pc[x] \in {"batch_term", "reset", "reset_fin", "reset_term"}
            /\ pc[x] = "batch_term" => terminate /\ batch_stage[x] /\ efile_update
            /\ pc[x] = "reset_term" => ~terminate
            /\ pc[x] \in {"batch_term", "reset", "reset_term"} =>
                 reset_rounds[x] + 1 = reset_rounds[w]
       /\ pc[w] = "sum" => pc[x] \in {"reset_term", "sum"} /\ terminate
       /\ pc[w] = "kick_fin" => pc[x] \in {"rebuild", "kickoff", "kick_fin"}
       /\ pc[w] = "barrier" => pc[x] \in {"batch_term", "barrier"} /\ terminate
       /\ pc[w] \in {"sum", "rebuild", "kickoff", "kick_fin", "resume", "barrier", "done"} =>
            reset_rounds[x] = reset_rounds[w]
  /\ \A w \in Workers : step[w] < MaxRound /\ reset_rounds[w] < MaxRound
  /\ \/ AllAt({"done"})
     \/ \E w \in Workers : WorkerReady(w)
     \/ CollectiveReady

\* a worker is blocked in the FinishARound of its second reset round while
\* its peer has not started that round yet
LockstepWitness ==
  \E w, x \in Workers :
    /\ pc[w] = "reset_fin" /\ reset_rounds[w] = 2
    /\ pc[x] = "reset_term" /\ reset_rounds[x] = 1

====
